---------------------------- MODULE Spec2Model ----------------------------
(***************************************************************************)
(* A model of the tabprinter crate (src/src/lib.rs, src/src/styles.rs):    *)
(* the Table data model, its transforms (add_column, add_row,              *)
(* auto_adjust_widths, sort_by_column, filter_rows,                        *)
(* group_by_column_with_subtotals), the column aggregations, and the       *)
(* renderer (print_to_writer / print_color) writing to a sink that may     *)
(* fail.                                                                   *)
(*                                                                         *)
(* Text is a sequence of one-character strings, so that length, ordering,  *)
(* number parsing and line splitting are computed character by character   *)
(* as the standard library computes them.                                  *)
(***************************************************************************)
EXTENDS Integers, Sequences, FiniteSets, TLC

VARIABLES columns, rows, style, filtered, call, sink, result, file

vars == <<columns, rows, style, filtered, call, sink, result, file>>
tableVars == <<columns, rows, style>>
sinkVars == <<sink, result, file>>

(***************************************************************************)
(* Bounds of the model.                                                    *)
(***************************************************************************)
MaxCols == 2
MaxRows == 2
FracDigits == 3

(***************************************************************************)
(* Characters and strings.                                                 *)
(***************************************************************************)
LF == "\n"

DigitChars == <<"0", "1", "2", "3", "4", "5", "6", "7", "8", "9">>
UpperChars == <<"A", "B", "C", "D", "E", "F", "G", "H", "I", "J", "K", "L", "M",
                "N", "O", "P", "Q", "R", "S", "T", "U", "V", "W", "X", "Y", "Z">>
LowerChars == <<"a", "b", "c", "d", "e", "f", "g", "h", "i", "j", "k", "l", "m",
                "n", "o", "p", "q", "r", "s", "t", "u", "v", "w", "x", "y", "z">>

Range(f) == {f[i] : i \in DOMAIN f}

IsDigit(ch) == ch \in Range(DigitChars)

IndexIn(seq, ch) == CHOOSE i \in DOMAIN seq : seq[i] = ch

DigitVal(ch) == IndexIn(DigitChars, ch) - 1

\* The byte value of an ASCII character: String's Ord compares bytes.
CharCode(ch) ==
    CASE ch = LF -> 10
      [] ch = " " -> 32
      [] ch = "'" -> 39
      [] ch = "+" -> 43
      [] ch = "," -> 44
      [] ch = "-" -> 45
      [] ch = "." -> 46
      [] ch = ":" -> 58
      [] ch = "|" -> 124
      [] IsDigit(ch) -> 48 + DigitVal(ch)
      [] ch \in Range(UpperChars) -> 64 + IndexIn(UpperChars, ch)
      [] ch \in Range(LowerChars) -> 96 + IndexIn(LowerChars, ch)

\* str::cmp: lexicographic comparison of the bytes; -1, 0 or 1.
RECURSIVE StrCmp(_, _)
StrCmp(a, b) ==
    IF a = <<>> /\ b = <<>> THEN 0
    ELSE IF a = <<>> THEN -1
    ELSE IF b = <<>> THEN 1
    ELSE IF CharCode(Head(a)) < CharCode(Head(b)) THEN -1
    ELSE IF CharCode(Head(a)) > CharCode(Head(b)) THEN 1
    ELSE StrCmp(Tail(a), Tail(b))

RECURSIVE Repeat(_, _)
Repeat(s, n) == IF n <= 0 THEN <<>> ELSE s \o Repeat(s, n - 1)

RECURSIVE Pow10(_)
Pow10(k) == IF k = 0 THEN 1 ELSE 10 * Pow10(k - 1)

Scale == Pow10(FracDigits)

\* The value of a string of decimal digits (0 for the empty string).
RECURSIVE DigitsVal(_)
DigitsVal(ds) ==
    IF ds = <<>> THEN 0
    ELSE 10 * DigitsVal(SubSeq(ds, 1, Len(ds) - 1)) + DigitVal(ds[Len(ds)])

\* The decimal digits of a natural number.
RECURSIVE NatStr(_)
NatStr(n) ==
    IF n < 10 THEN <<DigitChars[n + 1]>>
    ELSE NatStr(n \div 10) \o <<DigitChars[(n % 10) + 1]>>

(***************************************************************************)
(* str::parse::<f64>: an optional sign, then digits with at most one '.',  *)
(* at least one digit in all.  The exponent, "inf" and "nan" forms are not *)
(* written with the characters the model's inputs use.  A number is held   *)
(* as an integer count of 10^-FracDigits units; the inputs carry at most   *)
(* FracDigits fractional digits before their trailing zeros, so the value  *)
(* is exact.                                                               *)
(***************************************************************************)
ParseF64(s) ==
    LET signed == s # <<>> /\ Head(s) \in {"+", "-"}
        neg    == s # <<>> /\ Head(s) = "-"
        body   == IF signed THEN Tail(s) ELSE s
        dots   == {i \in DOMAIN body : body[i] = "."}
        dot    == IF dots = {} THEN Len(body) + 1 ELSE CHOOSE i \in dots : TRUE
        ip     == SubSeq(body, 1, dot - 1)
        fp     == SubSeq(body, dot + 1, Len(body))
        wellformed ==
            /\ Cardinality(dots) <= 1
            /\ \A i \in DOMAIN ip : IsDigit(ip[i])
            /\ \A i \in DOMAIN fp : IsDigit(fp[i])
            /\ Len(ip) + Len(fp) >= 1
        fpad   == SubSeq(fp \o Repeat(<<"0">>, FracDigits), 1, FracDigits)
        mag    == DigitsVal(ip) * Scale + DigitsVal(fpad)
    IN  IF wellformed
        THEN [ok |-> TRUE, val |-> IF neg THEN 0 - mag ELSE mag]
        ELSE [ok |-> FALSE, val |-> 0]

\* Trailing zeros of a fraction dropped.
RECURSIVE TrimZeros(_)
TrimZeros(ds) ==
    IF ds # <<>> /\ ds[Len(ds)] = "0"
    THEN TrimZeros(SubSeq(ds, 1, Len(ds) - 1))
    ELSE ds

\* f64::to_string (Display): no exponent, no fraction for a whole number.
F64ToString(v) ==
    LET mag  == IF v < 0 THEN 0 - v ELSE v
        ip   == NatStr(mag \div Scale)
        fraw == NatStr(mag % Scale)
        fp   == TrimZeros(Repeat(<<"0">>, FracDigits - Len(fraw)) \o fraw)
    IN  (IF v < 0 THEN <<"-">> ELSE <<>>)
        \o ip
        \o (IF fp = <<>> THEN <<>> ELSE <<".">> \o fp)

(***************************************************************************)
(* The data model: Column, CellStyle, Cell, Table.                         *)
(***************************************************************************)
Alignments == {"Left", "Center", "Right"}

\* Option<T>: the empty sequence is None, a one-element sequence is Some.
None == <<>>
Some(x) == <<x>>

Column(header, width, alignment) ==
    [header |-> header, width |-> width, alignment |-> alignment]

CellStyleNew ==
    [bold |-> FALSE, italic |-> FALSE, underline |-> FALSE, padding |-> 1,
     decimal_places |-> None, thousand_separator |-> FALSE]

CellNew(content) == [content |-> content, style |-> CellStyleNew]

\* row[i] with the code's 0-based index.
At(row, i) == row[i + 1]

InRange(row, i) == i < Len(row)

Max(a, b) == IF a >= b THEN a ELSE b

RECURSIVE SeqSum(_)
SeqSum(xs) == IF xs = <<>> THEN 0 ELSE Head(xs) + SeqSum(Tail(xs))

\* The least element of a non-empty set of integers.
Least(S) == CHOOSE x \in S : \A y \in S : x <= y

(***************************************************************************)
(* Table::add_column and Table::add_row.                                   *)
(***************************************************************************)
add_column_cols(cols, header, width, alignment) ==
    Append(cols, Column(header, width, alignment))

\* A row accepted although it has more cells than the table has columns.
add_row_accepts_longer(cols, row) == Len(cols) <= Len(row)

\* assert_eq!(self.columns.len(), row.len(), ...)
add_row_accepts(cols, row) == Len(cols) = Len(row)

RowLengthPanic == "Row length must match number of columns"

add_row_rows(rs, row) == Append(rs, row)

(***************************************************************************)
(* Table::auto_adjust_widths.  Columns are visited in order; row[i] of a   *)
(* row with no cell i panics, after the earlier columns were adjusted.     *)
(***************************************************************************)
AdjustedWidth(col, rs, i) ==
    LET header_len == Len(col.header)
        lens       == {Len(At(rs[k], i).content) : k \in DOMAIN rs}
        max_cell   == IF lens = {} THEN 0
                      ELSE CHOOSE m \in lens : \A n \in lens : n <= m
    IN  Max(header_len, max_cell) + 2

auto_adjust_widths(cols, rs) ==
    LET bad   == {i \in 0..(Len(cols) - 1) :
                     \E k \in DOMAIN rs : ~InRange(rs[k], i)}
        stop  == IF bad = {} THEN Len(cols) ELSE Least(bad)
    IN  [panic   |-> bad # {},
         columns |-> [j \in DOMAIN cols |->
                        IF j - 1 < stop
                        THEN [cols[j] EXCEPT !.width =
                                 AdjustedWidth(cols[j], rs, j - 1)]
                        ELSE cols[j]]]

(***************************************************************************)
(* Table::sort_by_column: slice::sort_by, a stable sort, with the          *)
(* comparator of the closure.                                              *)
(***************************************************************************)
\* The closure: a[column_index].content.cmp(&b[column_index].content),
\* reversed when not ascending.
SortCompare(a, b, column_index, ascending) ==
    LET ord == StrCmp(At(a, column_index).content, At(b, column_index).content)
    IN  IF ascending THEN ord ELSE 0 - ord

\* x inserted before the elements that compare equal to it: not stable.
RECURSIVE UnstableInsert(_, _, _, _)
UnstableInsert(sorted, x, column_index, ascending) ==
    IF sorted = <<>> THEN <<x>>
    ELSE IF SortCompare(Head(sorted), x, column_index, ascending) >= 0
         THEN <<x>> \o sorted
         ELSE <<Head(sorted)>>
              \o UnstableInsert(Tail(sorted), x, column_index, ascending)

\* x inserted behind every element that does not compare greater than it.
RECURSIVE StableInsert(_, _, _, _)
StableInsert(sorted, x, column_index, ascending) ==
    IF sorted = <<>> THEN <<x>>
    ELSE IF SortCompare(Head(sorted), x, column_index, ascending) > 0
         THEN <<x>> \o sorted
         ELSE <<Head(sorted)>>
              \o StableInsert(Tail(sorted), x, column_index, ascending)

RECURSIVE StableSort(_, _, _)
StableSort(rs, column_index, ascending) ==
    IF rs = <<>> THEN <<>>
    ELSE StableInsert(StableSort(SubSeq(rs, 1, Len(rs) - 1), column_index, ascending),
                      rs[Len(rs)], column_index, ascending)

\* The comparator runs (and indexes both rows) as soon as there are two rows.
sort_panics(rs, column_index) ==
    Len(rs) >= 2 /\ \E k \in DOMAIN rs : ~InRange(rs[k], column_index)

sort_by_column_rows(rs, column_index, ascending) ==
    StableSort(rs, column_index, ascending)

(***************************************************************************)
(* Table::filter_rows with the predicate |row| row[col].content == text.   *)
(***************************************************************************)
Predicate(col, text) == [col |-> col, text |-> text]

PredicateHolds(p, row) == At(row, p.col).content = p.text

RECURSIVE FilterSeq(_, _)
FilterSeq(rs, p) ==
    IF rs = <<>> THEN <<>>
    ELSE (IF PredicateHolds(p, Head(rs)) THEN <<Head(rs)>> ELSE <<>>)
         \o FilterSeq(Tail(rs), p)

filter_panics(rs, p) == \E k \in DOMAIN rs : ~InRange(rs[k], p.col)

\* A table built afresh with the default style, as a constructor would.
filter_rows_table_new_style(cols, rs, st, p) ==
    [columns |-> cols, rows |-> FilterSeq(rs, p), style |-> "Simple"]

filter_rows_table(cols, rs, st, p) ==
    [columns |-> cols, rows |-> FilterSeq(rs, p), style |-> st]

(***************************************************************************)
(* Table::calculate_subtotal and Table::group_by_column_with_subtotals.    *)
(***************************************************************************)
Str_Subtotal == <<"S", "u", "b", "t", "o", "t", "a", "l">>

\* group.iter().all(|row| row[i].content.parse::<f64>().is_ok()) stops at
\* the first row that has no cell i (a panic) or whose cell does not parse.
SubtotalStops(group, i) ==
    {k \in DOMAIN group :
        ~InRange(group[k], i) \/ ~ParseF64(At(group[k], i).content).ok}

SubtotalCellPanics(group, i) ==
    LET stops == SubtotalStops(group, i)
    IN  stops # {} /\ ~InRange(group[Least(stops)], i)

SubtotalCell(group, i) ==
    IF SubtotalStops(group, i) = {}
    THEN CellNew(F64ToString(
             SeqSum([k \in DOMAIN group |-> ParseF64(At(group[k], i).content).val])))
    ELSE CellNew(<<>>)

calculate_subtotal_panics(cols, group) ==
    \E i \in 0..(Len(cols) - 1) : i # 0 /\ SubtotalCellPanics(group, i)

\* One cell per column: the label `if i == 0`, else the sum or "".
calculate_subtotal(cols, group) ==
    [j \in DOMAIN cols |->
        IF j - 1 = 0 THEN CellNew(Str_Subtotal) ELSE SubtotalCell(group, j - 1)]

\* The loop over &self.rows and the flush after it.  The state of the loop:
\* grouped_rows, current_group, current_value, and whether it has panicked.
GroupLoopInit ==
    [panic |-> FALSE, grouped_rows |-> <<>>, current_group |-> <<>>,
     current_value |-> None]

GroupLoopBody(cols, column_index, st, row) ==
    IF st.panic THEN st
    ELSE IF ~InRange(row, column_index) THEN [st EXCEPT !.panic = TRUE]
    ELSE
      LET value == At(row, column_index).content
      IN  IF st.current_value = None \/ st.current_value[1] # value
          THEN IF st.current_group # <<>>
                  /\ calculate_subtotal_panics(cols, st.current_group)
               THEN [st EXCEPT !.panic = TRUE]
               ELSE [panic |-> FALSE,
                     grouped_rows |->
                        (IF st.current_group # <<>>
                         THEN Append(st.grouped_rows,
                                     calculate_subtotal(cols, st.current_group))
                         ELSE st.grouped_rows) \o <<row>>,
                     current_group |-> <<row>>,
                     current_value |-> Some(value)]
          ELSE [st EXCEPT !.grouped_rows = Append(@, row),
                          !.current_group = Append(@, row)]

RECURSIVE GroupLoop(_, _, _, _)
GroupLoop(cols, column_index, st, rs) ==
    IF rs = <<>> THEN st
    ELSE GroupLoop(cols, column_index,
                   GroupLoopBody(cols, column_index, st, Head(rs)), Tail(rs))

\* The loop without the flush of the last group after it.
group_without_last_flush(cols, rs, column_index) ==
    LET st == GroupLoop(cols, column_index, GroupLoopInit, rs)
    IN  [panic |-> st.panic, rows |-> IF st.panic THEN rs ELSE st.grouped_rows]

group_by_column_with_subtotals(cols, rs, column_index) ==
    LET st == GroupLoop(cols, column_index, GroupLoopInit, rs)
    IN  IF st.panic THEN [panic |-> TRUE, rows |-> rs]
        ELSE IF st.current_group = <<>> THEN [panic |-> FALSE, rows |-> st.grouped_rows]
        ELSE IF calculate_subtotal_panics(cols, st.current_group)
             THEN [panic |-> TRUE, rows |-> rs]
             ELSE [panic |-> FALSE,
                   rows |-> Append(st.grouped_rows,
                                   calculate_subtotal(cols, st.current_group))]

(***************************************************************************)
(* Table::aggregate_column, sum_column, average_column.  An average is the *)
(* quotient of two numbers, held as the pair (num, den).                   *)
(***************************************************************************)
\* filter_map(|row| row[column_index].content.parse::<f64>().ok()).collect()
RECURSIVE ParsedValues(_, _)
ParsedValues(rs, column_index) ==
    IF rs = <<>> THEN <<>>
    ELSE LET p == ParseF64(At(Head(rs), column_index).content)
         IN  (IF p.ok THEN <<p.val>> ELSE <<>>)
             \o ParsedValues(Tail(rs), column_index)

aggregate_panics(rs, column_index) ==
    \E k \in DOMAIN rs : ~InRange(rs[k], column_index)

\* values.iter().sum()
SumFn(values) == [num |-> SeqSum(values), den |-> 1]

\* values.iter().sum::<f64>() / values.len() as f64
AverageFn(values) == [num |-> SeqSum(values), den |-> Len(values)]

sum_column(rs, column_index) ==
    LET values == ParsedValues(rs, column_index)
    IN  IF values = <<>> THEN None ELSE Some(SumFn(values))

\* The mean taken over all rows instead of the parsed values.
average_over_all_rows(rs, column_index) ==
    LET values == ParsedValues(rs, column_index)
    IN  IF values = <<>> THEN None
        ELSE Some([num |-> SeqSum(values), den |-> Len(rs)])

average_column(rs, column_index) ==
    LET values == ParsedValues(rs, column_index)
    IN  IF values = <<>> THEN None ELSE Some(AverageFn(values))

(***************************************************************************)
(* Cell::lines and Cell::formatted_content.                                *)
(***************************************************************************)
\* str::lines: the text split at each "\n"; no last line for text that is
\* empty or ends in "\n".
RECURSIVE Lines(_)
Lines(text) ==
    IF text = <<>> THEN <<>>
    ELSE LET breaks == {i \in DOMAIN text : text[i] = LF}
         IN  IF breaks = {} THEN <<text>>
             ELSE <<SubSeq(text, 1, Least(breaks) - 1)>>
                  \o Lines(SubSeq(text, Least(breaks) + 1, Len(text)))

\* format!("{:.1$}", number, decimal_places): the value rounded to
\* decimal_places digits, ties to the even digit (the inputs of the model
\* are exact in binary at a tie), zeros appended beyond FracDigits.  The
\* sign of a negative number stays when it rounds to zero.
FormatFixed(v, decimal_places) ==
    LET mag   == IF v < 0 THEN 0 - v ELSE v
        drop  == Pow10(Max(FracDigits - decimal_places, 0))
        q     == mag \div drop
        r     == mag % drop
        up    == 2 * r > drop \/ (2 * r = drop /\ q % 2 = 1)
        units == (IF up THEN q + 1 ELSE q)
                   * Pow10(Max(decimal_places - FracDigits, 0))
        one   == Pow10(decimal_places)
        fraw  == NatStr(units % one)
        fp    == Repeat(<<"0">>, decimal_places - Len(fraw)) \o fraw
    IN  (IF v < 0 THEN <<"-">> ELSE <<>>)
        \o NatStr(units \div one)
        \o (IF decimal_places = 0 THEN <<>> ELSE <<".">> \o fp)

\* chars.insert(i, ','): a ',' put before the character at 0-based index i.
InsertComma(chars, i) == SubSeq(chars, 1, i) \o <<",">> \o SubSeq(chars, i + 1, Len(chars))

\* let mut i = chars.len() as isize - 3; while i > 0 { insert; i -= 3 }
RECURSIVE ThousandsLoop(_, _)
ThousandsLoop(chars, i) ==
    IF i > 0 THEN ThousandsLoop(InsertComma(chars, i), i - 3) ELSE chars

ThousandSeparated(formatted) ==
    LET dots  == {i \in DOMAIN formatted : formatted[i] = "."}
        first == IF dots = {} THEN Len(formatted) + 1 ELSE Least(dots)
        part0 == SubSeq(formatted, 1, first - 1)
        rest  == SubSeq(formatted, first + 1, Len(formatted))
        part1 == IF {i \in DOMAIN rest : rest[i] = "."} = {} THEN rest
                 ELSE SubSeq(rest, 1, Least({i \in DOMAIN rest : rest[i] = "."}) - 1)
        integer_part == ThousandsLoop(part0, Len(part0) - 3)
    IN  IF dots # {} THEN integer_part \o <<".">> \o part1 ELSE integer_part

formatted_content(cell) ==
    LET number == ParseF64(cell.content)
    IN  IF number.ok
        THEN LET formatted ==
                   IF cell.style.decimal_places # None
                   THEN FormatFixed(number.val, cell.style.decimal_places[1])
                   ELSE F64ToString(number.val)
             IN  IF cell.style.thousand_separator
                 THEN ThousandSeparated(formatted)
                 ELSE formatted
        ELSE cell.content

(***************************************************************************)
(* The style registry (styles.rs) and TableStyle::config.  The styles      *)
(* whose glyphs are ASCII are modelled; the others have the same shape.    *)
(***************************************************************************)
LineStyle(begin, hline, sep, end) ==
    [begin |-> begin, hline |-> hline, sep |-> sep, end |-> end]

NoLine == LineStyle(<<>>, <<>>, <<>>, <<>>)

GridConfig ==
    [top          |-> LineStyle(<<"+">>, <<"-">>, <<"+">>, <<"+">>),
     below_header |-> LineStyle(<<"+">>, <<"-">>, <<"+">>, <<"+">>),
     bottom       |-> LineStyle(<<"+">>, <<"-">>, <<"+">>, <<"+">>),
     row          |-> LineStyle(<<"|">>, <<>>, <<"|">>, <<"|">>)]

MarkdownConfig ==
    [top          |-> NoLine,
     below_header |-> LineStyle(<<"|">>, <<"-">>, <<"|">>, <<"|">>),
     bottom       |-> NoLine,
     row          |-> LineStyle(<<"|">>, <<>>, <<"|">>, <<"|">>)]

DottedConfig ==
    [top          |-> LineStyle(<<".">>, <<".">>, <<".">>, <<".">>),
     below_header |-> LineStyle(<<":">>, <<".">>, <<":">>, <<":">>),
     bottom       |-> LineStyle(<<"'">>, <<".">>, <<"'">>, <<"'">>),
     row          |-> LineStyle(<<":">>, <<>>, <<":">>, <<":">>)]

\* TableStyle::config: Some(template) or None (Simple, Amiga).
StyleConfig(st) ==
    CASE st = "Grid" -> Some(GridConfig)
      [] st = "Markdown" -> Some(MarkdownConfig)
      [] st = "Dotted" -> Some(DottedConfig)
      [] OTHER -> None

(***************************************************************************)
(* The renderer.  A render is the sequence of operations it performs on    *)
(* the sink: write (one write!/writeln!), set_color, reset.  Each carries  *)
(* the place that performs it, the calls it is nested in (`path`, the      *)
(* outermost first) and `at`, the part of the table it belongs to: for a   *)
(* cell the row, sub-line and column, for the end of a line the line.      *)
(* `column.width - 1` on a width of 0 is an "underflow".                   *)
(***************************************************************************)
\* part: "top", "header", "below_header", "row", "bottom" or "none"; row:
\* the 1-based place of a data row; line, col: 0-based, -1 where there is
\* none.
Mark(part, row, line, col) == [part |-> part, row |-> row, line |-> line, col |-> col]

NoMark == Mark("none", 0, -1, -1)

ColorSpec(bold, italic, underline, fg) ==
    [bold |-> bold, italic |-> italic, underline |-> underline, fg |-> fg]

CellColorSpec(cell) ==
    ColorSpec(cell.style.bold, cell.style.italic, cell.style.underline, None)

Op(kind, site, text, spec, at) ==
    [kind |-> kind, site |-> site, text |-> text, spec |-> spec, at |-> at,
     path |-> <<>>]

WriteOp(site, text) == Op("write", site, text, None, NoMark)

CellWriteOp(site, text, at) == Op("write", site, text, None, at)

SetColorOp(site, spec) == Op("set_color", site, <<>>, Some(spec), NoMark)

ResetOp(site) == Op("reset", site, <<>>, None, NoMark)

UnderflowOp(site) == Op("underflow", site, <<>>, None, NoMark)

\* The operations of a call made at `site` (its `iter`-th call there).
Within(site, iter, ops) ==
    [k \in DOMAIN ops |->
        [ops[k] EXCEPT !.path = <<[site |-> site, iter |-> iter]>> \o @]]

RECURSIVE Concat(_)
Concat(seqs) == IF seqs = <<>> THEN <<>> ELSE Head(seqs) \o Concat(Tail(seqs))

Spaces(n) == Repeat(<<" ">>, n)

\* {:<width$}, {:^width$}, {:>width$}: padded with spaces to `width`
\* characters, never cut; centring puts the odd space on the right.
Aligned(text, width, alignment) ==
    LET diff == width - Len(text)
    IN  IF diff <= 0 THEN text
        ELSE CASE alignment = "Left" -> text \o Spaces(diff)
               [] alignment = "Right" -> Spaces(diff) \o text
               [] alignment = "Center" ->
                     Spaces(diff \div 2) \o text \o Spaces(diff - (diff \div 2))

\* row.iter().map(|cell| cell.lines().len()).max().unwrap_or(1)
max_lines(row) ==
    IF row = <<>> THEN 1
    ELSE LET counts == {Len(Lines(row[j].content)) : j \in DOMAIN row}
         IN  CHOOSE m \in counts : \A n \in counts : n <= m

\* The cells and columns a zip of the two visits.
Zipped(cols, row) == 1..(IF Len(cols) <= Len(row) THEN Len(cols) ELSE Len(row))

\* Table::print_headers
print_headers(cols) ==
    Concat([j \in DOMAIN cols |->
        IF cols[j].width = 0
        THEN <<UnderflowOp("print_headers.width")>>
        ELSE <<WriteOp("print_headers.header",
                       Aligned(cols[j].header, cols[j].width - 1,
                               cols[j].alignment))>>
             \o (IF j - 1 < Len(cols) - 1
                 THEN <<WriteOp("print_headers.gap", <<" ">>)>>
                 ELSE <<>>)])
    \o <<Op("write", "print_headers.newline", <<LF>>, None,
            Mark("header", 0, 0, -1))>>

\* A padding of one space, whatever the cell's style.
padding_of_one(cell) == Spaces(1)

\* let padding = " ".repeat(cell.style.padding);
padding(cell) == Spaces(cell.style.padding)

\* The text written for one cell: formatted_content, whatever the sub-line.
CellText(cell, line_index) == formatted_content(cell)

\* Table::print_row, for the k-th data row.
print_row(cols, row, k) ==
    Concat([l \in 1..max_lines(row) |->
        Concat([j \in Zipped(cols, row) |->
            <<SetColorOp("print_row.set_color", CellColorSpec(row[j]))>>
            \o (IF cols[j].width = 0
                THEN <<UnderflowOp("print_row.width")>>
                ELSE <<CellWriteOp("print_row.cell",
                          padding(row[j])
                          \o Aligned(CellText(row[j], l - 1), cols[j].width - 1,
                                     cols[j].alignment)
                          \o padding(row[j]),
                          Mark("row", k, l - 1, j - 1))>>)
            \o <<ResetOp("print_row.reset"),
                 WriteOp("print_row.gap", <<" ">>)>>])
        \o <<Op("write", "print_row.newline", <<LF>>, None,
                Mark("row", k, l - 1, -1))>>])

\* Table::print_line, for the border `part`.
print_line(cols, line, part) ==
    <<WriteOp("print_line.begin", line.begin)>>
    \o Concat([j \in DOMAIN cols |->
          (IF j - 1 > 0 THEN <<WriteOp("print_line.sep", line.sep)>> ELSE <<>>)
          \o <<WriteOp("print_line.hline", Repeat(line.hline, cols[j].width + 2))>>])
    \o <<Op("write", "print_line.end", line.end \o <<LF>>, None,
            Mark(part, 0, 0, -1))>>

\* Table::print_row_styled, for the header row or the k-th data row.
print_row_styled(cols, row, line, part, k) ==
    Concat([l \in 1..max_lines(row) |->
        <<WriteOp("print_row_styled.begin", line.begin)>>
        \o Concat([j \in Zipped(cols, row) |->
              (IF j - 1 > 0
               THEN <<WriteOp("print_row_styled.sep", line.sep)>> ELSE <<>>)
              \o <<SetColorOp("print_row_styled.set_color", CellColorSpec(row[j])),
                   CellWriteOp("print_row_styled.cell",
                      <<" ">> \o padding(row[j])
                      \o Aligned(CellText(row[j], l - 1), cols[j].width,
                                 cols[j].alignment)
                      \o padding(row[j]) \o <<" ">>,
                      Mark(part, k, l - 1, j - 1)),
                   ResetOp("print_row_styled.reset")>>])
        \o <<Op("write", "print_row_styled.end", line.end \o <<LF>>, None,
                Mark(part, k, l - 1, -1))>>])

\* Table::print_simple
print_simple(cols, rs) ==
    Within("print_simple.print_headers", 0, print_headers(cols))
    \o Concat([k \in DOMAIN rs |->
          Within("print_simple.print_row", k, print_row(cols, rs[k], k))])

HeaderCells(cols) == [j \in DOMAIN cols |-> CellNew(cols[j].header)]

\* A render that closes the table before its data rows.
print_styled_bottom_first(cols, rs, cfg) ==
    Within("print_styled.top", 0, print_line(cols, cfg.top, "top"))
    \o Within("print_styled.header", 0,
              print_row_styled(cols, HeaderCells(cols), cfg.row, "header", 0))
    \o Within("print_styled.below_header", 0,
              print_line(cols, cfg.below_header, "below_header"))
    \o Within("print_styled.bottom", 0, print_line(cols, cfg.bottom, "bottom"))
    \o Concat([k \in DOMAIN rs |->
          Within("print_styled.row", k,
                 print_row_styled(cols, rs[k], cfg.row, "row", k))])

\* The calls of Table::print_styled, in their order.
print_styled(cols, rs, cfg) ==
    Within("print_styled.top", 0, print_line(cols, cfg.top, "top"))
    \o Within("print_styled.header", 0,
              print_row_styled(cols, HeaderCells(cols), cfg.row, "header", 0))
    \o Within("print_styled.below_header", 0,
              print_line(cols, cfg.below_header, "below_header"))
    \o Concat([k \in DOMAIN rs |->
          Within("print_styled.row", k,
                 print_row_styled(cols, rs[k], cfg.row, "row", k))])
    \o Within("print_styled.bottom", 0, print_line(cols, cfg.bottom, "bottom"))

\* Table::print_amiga_color
print_amiga_color(cols, rs) ==
    <<SetColorOp("print_amiga_color.header_color",
                 ColorSpec(FALSE, FALSE, FALSE, Some("Blue")))>>
    \o Within("print_amiga_color.print_headers", 0, print_headers(cols))
    \o <<SetColorOp("print_amiga_color.row_color",
                    ColorSpec(FALSE, FALSE, FALSE, Some("White")))>>
    \o Concat([k \in DOMAIN rs |->
          Within("print_amiga_color.print_row", k, print_row(cols, rs[k], k))])
    \o <<ResetOp("print_amiga_color.reset")>>

\* Table::print_to_writer
print_to_writer_ops(cols, rs, st) ==
    IF StyleConfig(st) # None
    THEN Within("print_to_writer.print_styled", 0,
                print_styled(cols, rs, StyleConfig(st)[1]))
    ELSE Within("print_to_writer.print_simple", 0, print_simple(cols, rs))

\* Table::print_color
print_color_ops(cols, rs, st) ==
    IF st = "Amiga"
    THEN Within("print_color.print_amiga_color", 0, print_amiga_color(cols, rs))
    ELSE IF StyleConfig(st) # None
    THEN Within("print_color.print_styled", 0,
                print_styled(cols, rs, StyleConfig(st)[1]))
    ELSE Within("print_color.print_simple", 0, print_simple(cols, rs))

(***************************************************************************)
(* Running a render against a sink that may fail.  The sink fails at its   *)
(* `fail`-th operation and at every later one (0: it never fails).  A      *)
(* place that hands a failure to its caller (`?`, or the value returned)   *)
(* ends the function it is in; the failure travels outwards through the    *)
(* calls of `path` while each of them hands it on.                          *)
(***************************************************************************)
NoResult == [kind |-> "none", at |-> 0]

Ok == [kind |-> "Ok", at |-> 0]

\* Err(e), e the failure of the sink's n-th operation.
Err(n) == [kind |-> "Err", at |-> n]

Underflowed == [kind |-> "underflow", at |-> 0]

\* A render that swallows the failure of reset in print_row_styled.
PropagatesExceptReset(site) == site # "print_row_styled.reset"

\* Every sink operation and every nested call is followed by `?` or is the
\* value the function returns.
Propagates(site) == TRUE

\* write! of an empty text calls the sink with nothing, which cannot fail.
Reaches(op) == op.kind # "write" \/ op.text # <<>>

Logged(op, ok) ==
    [kind |-> op.kind, site |-> op.site, text |-> op.text, spec |-> op.spec,
     at |-> op.at, ok |-> ok]

\* Where execution resumes after the failure of ops[i] was dropped by the
\* call `level` frames deep: behind the operations of that call.
ResumeAt(ops, i, frames, level) ==
    IF level > Len(ops[i].path) THEN i + 1
    ELSE LET later == {j \in (i + 1)..Len(ops) :
                          \/ Len(ops[j].path) < level
                          \/ SubSeq(ops[j].path, 1, level) # SubSeq(frames, 1, level)}
         IN  IF later = {} THEN Len(ops) + 1 ELSE Least(later)

RECURSIVE RunFrom(_, _, _, _)
RunFrom(ops, i, fail, log) ==
    IF i > Len(ops) THEN [log |-> log, result |-> Ok]
    ELSE IF ops[i].kind = "underflow" THEN [log |-> log, result |-> Underflowed]
    ELSE IF ~Reaches(ops[i]) THEN RunFrom(ops, i + 1, fail, log)
    ELSE LET n      == Len(log) + 1
             failed == fail > 0 /\ n >= fail
             frames == ops[i].path \o <<[site |-> ops[i].site, iter |-> 0]>>
             kept   == {l \in DOMAIN frames : ~Propagates(frames[l].site)}
         IN  IF ~failed
             THEN RunFrom(ops, i + 1, fail, Append(log, Logged(ops[i], TRUE)))
             ELSE IF kept = {}
             THEN [log |-> Append(log, Logged(ops[i], FALSE)), result |-> Err(n)]
             ELSE RunFrom(ops,
                          ResumeAt(ops, i, frames,
                                   CHOOSE l \in kept : \A m \in kept : m <= l),
                          fail, Append(log, Logged(ops[i], FALSE)))

Run(ops, fail) == RunFrom(ops, 1, fail, <<>>)

\* The number of operations a render performs on a sink that never fails.
SinkOps(ops) == Len(Run(ops, 0).log)

\* `width - 1` on 0: a panic where overflow is checked; otherwise the width
\* wraps and the padding does not end.
UnderflowOutcomes == {"panic", "unbounded"}

(***************************************************************************)
(* The inputs the operations are called with.                              *)
(***************************************************************************)
Str_Test == <<"T", "e", "s", "t">>
Str_Amount == <<"A", "m", "o", "u", "n", "t">>
Str_A == <<"A">>
Str_100 == <<"1", "0", "0">>
Str_25 == <<"2", "5">>

TableStyles == {"Simple", "Grid"}

ColumnInputs ==
    {Column(Str_Test, 10, "Left"), Column(Str_Amount, 10, "Right")}

RowOf(contents) == [j \in DOMAIN contents |-> CellNew(contents[j])]

\* Rows of 1..MaxCols cells: a key in the first cell, one value in the others.
RowInputs ==
    {RowOf([j \in 1..n |-> IF j = 1 THEN kv[1] ELSE kv[2]]) :
        n \in 1..MaxCols,
        kv \in {<<Str_A, Str_100>>, <<Str_A, Str_25>>, <<Str_25, Str_100>>}}

\* The indexes of the table's columns, as the callers pass them.
ColumnIndexes == 0..(Len(columns) - 1)

PredicateInputs == {Predicate(i, c) : i \in ColumnIndexes, c \in {Str_A, Str_25}}

Call(op, args, outcome, ret) ==
    [op |-> op, args |-> args, outcome |-> outcome, ret |-> ret]

(***************************************************************************)
(* The table and its operations as a state machine.  `call` records the    *)
(* last call: its name, arguments, outcome ("ok" or "panic") and return    *)
(* value; `filtered` is a table returned by filter_rows that the caller    *)
(* has kept; `file` is the text of the file to_csv has written (None: no   *)
(* file).  A panic unwinds the calling thread: no further call is made     *)
(* after one.                                                              *)
(***************************************************************************)
Running == call.outcome = "ok"

\* Table::new(style)
Init ==
    /\ columns = <<>>
    /\ rows = <<>>
    /\ style \in TableStyles
    /\ filtered = None
    /\ call = Call("new", <<style>>, "ok", None)
    /\ sink = <<>>
    /\ result = NoResult
    /\ file = None

add_column ==
    \E c \in ColumnInputs :
        /\ Running
        /\ Len(columns) < MaxCols
        /\ columns' = add_column_cols(columns, c.header, c.width, c.alignment)
        /\ call' = Call("add_column", <<c>>, "ok", None)
        /\ UNCHANGED <<rows, style, filtered, sinkVars>>

add_row ==
    \E row \in RowInputs :
        /\ Running
        /\ Len(rows) < MaxRows
        /\ IF add_row_accepts(columns, row)
           THEN /\ rows' = add_row_rows(rows, row)
                /\ call' = Call("add_row", <<row>>, "ok", None)
           ELSE /\ rows' = rows
                /\ call' = Call("add_row", <<row>>, "panic", Some(RowLengthPanic))
        /\ UNCHANGED <<columns, style, filtered, sinkVars>>

auto_adjust ==
    LET r == auto_adjust_widths(columns, rows)
    IN  /\ Running
        /\ columns' = r.columns
        /\ call' = Call("auto_adjust_widths", <<>>,
                        IF r.panic THEN "panic" ELSE "ok", None)
        /\ UNCHANGED <<rows, style, filtered, sinkVars>>

\* A comparator that panics leaves the slice with all its elements in an
\* order the library does not specify; the unwinding ends the run before
\* anything reads it, and the model keeps the rows as they were.
sort ==
    \E column_index \in ColumnIndexes, ascending \in BOOLEAN :
        /\ Running
        /\ IF sort_panics(rows, column_index)
           THEN /\ rows' = rows
                /\ call' = Call("sort_by_column", <<column_index, ascending>>,
                                "panic", None)
           ELSE /\ rows' = sort_by_column_rows(rows, column_index, ascending)
                /\ call' = Call("sort_by_column", <<column_index, ascending>>,
                                "ok", None)
        /\ UNCHANGED <<columns, style, filtered, sinkVars>>

\* let filtered = table.filter_rows(p) when the caller keeps the table it
\* gets (`keep`), table.filter_rows(p) alone when it does not.
filter_rows(keep) ==
    \E p \in PredicateInputs :
        /\ Running
        /\ keep => filtered = None
        /\ IF filter_panics(rows, p)
           THEN /\ call' = Call("filter_rows", <<p>>, "panic", None)
                /\ filtered' = filtered
           ELSE LET t == filter_rows_table(columns, rows, style, p)
                IN  /\ call' = Call("filter_rows", <<p>>, "ok", Some(t))
                    /\ filtered' = IF keep THEN Some(t) ELSE filtered
        /\ UNCHANGED <<tableVars, sinkVars>>

filter == filter_rows(FALSE)

group ==
    \E column_index \in ColumnIndexes :
        LET r == group_by_column_with_subtotals(columns, rows, column_index)
        IN  /\ Running
            /\ Len(rows) <= MaxRows
            /\ rows' = r.rows
            /\ call' = Call("group_by_column_with_subtotals", <<column_index>>,
                            IF r.panic THEN "panic" ELSE "ok", None)
            /\ UNCHANGED <<columns, style, filtered, sinkVars>>

sum ==
    \E column_index \in ColumnIndexes :
        /\ Running
        /\ IF aggregate_panics(rows, column_index)
           THEN call' = Call("sum_column", <<column_index>>, "panic", None)
           ELSE call' = Call("sum_column", <<column_index>>, "ok",
                             Some(sum_column(rows, column_index)))
        /\ UNCHANGED <<tableVars, filtered, sinkVars>>

average ==
    \E column_index \in ColumnIndexes :
        /\ Running
        /\ IF aggregate_panics(rows, column_index)
           THEN call' = Call("average_column", <<column_index>>, "panic", None)
           ELSE call' = Call("average_column", <<column_index>>, "ok",
                             Some(average_column(rows, column_index)))
        /\ UNCHANGED <<tableVars, filtered, sinkVars>>

Next ==
    \/ add_column
    \/ add_row
    \/ auto_adjust
    \/ sort
    \/ filter
    \/ group
    \/ sum
    \/ average

Spec == Init /\ [][Next]_vars

(***************************************************************************)
(* Properties of the table operations.                                     *)
(***************************************************************************)
Completed(op) == call.op = op /\ call.outcome = "ok"

Panicked(op) == call.op = op /\ call.outcome = "panic"

\* C1: every row of the table, and of a table filter_rows returned, has as
\* many cells as the table has columns, in every reachable state.
C1_RowLengthInvariant ==
    /\ \A k \in DOMAIN rows : Len(rows[k]) = Len(columns)
    /\ Completed("filter_rows") =>
          \A k \in DOMAIN call.ret[1].rows :
              Len(call.ret[1].rows[k]) = Len(call.ret[1].columns)

\* C2: add_row with a row whose cell count differs from the column count
\* panics with the row-length message and leaves the rows unchanged (a table
\* with one column of width 10 refuses a two-cell row and still has no row);
\* with a matching cell count it appends the row as the last row.
C2_AddRowStep ==
    call'.op = "add_row" =>
        LET row == call'.args[1]
        IN  IF Len(row) # Len(columns)
            THEN /\ call'.outcome = "panic"
                 /\ call'.ret = Some(RowLengthPanic)
                 /\ rows' = rows
            ELSE /\ call'.outcome = "ok"
                 /\ Len(rows') = Len(rows) + 1
                 /\ rows'[Len(rows')] = row
                 /\ SubSeq(rows', 1, Len(rows)) = rows

C2_AddRow == [][C2_AddRowStep]_vars

C2_Witness ==
    /\ Panicked("add_row")
    /\ Len(columns) = 1
    /\ columns[1].width = 10
    /\ Len(call.args[1]) = 2
    /\ Len(rows) = 0

(***************************************************************************)
(* Grouping, stated by the runs of the grouping column.                    *)
(***************************************************************************)
\* The last row of each maximal run of equal content in column c.
RunEnds(rs, c) ==
    {k \in DOMAIN rs :
        k = Len(rs) \/ At(rs[k], c).content # At(rs[k + 1], c).content}

\* The first row of the run that ends at row e.
RunStart(rs, c, e) ==
    LET before == {k \in RunEnds(rs, c) : k < e}
    IN  IF before = {} THEN 1
        ELSE 1 + (CHOOSE m \in before : \A n \in before : n <= m)

\* Where row k of the old rows, and the subtotal of the run ending at e,
\* stand in the new rows.
RowPlace(rs, c, k) == k + Cardinality({e \in RunEnds(rs, c) : e < k})

SubtotalPlace(rs, c, e) == e + Cardinality({k \in RunEnds(rs, c) : k <= e})

HasLabel(row) == \E j \in DOMAIN row : row[j].content = Str_Subtotal

Str_B == <<"B">>
Str_Category == <<"C", "a", "t", "e", "g", "o", "r", "y">>
Str_200 == <<"2", "0", "0">>
Str_300 == <<"3", "0", "0">>
Str_400 == <<"4", "0", "0">>
Str_700 == <<"7", "0", "0">>

\* test_group_by_column_with_subtotals
ExampleColumns ==
    <<Column(Str_Category, 10, "Left"), Column(Str_Amount, 10, "Right")>>

ExampleRows ==
    <<RowOf(<<Str_A, Str_100>>), RowOf(<<Str_A, Str_200>>),
      RowOf(<<Str_B, Str_300>>), RowOf(<<Str_B, Str_400>>)>>

ExampleGrouped ==
    <<RowOf(<<Str_A, Str_100>>), RowOf(<<Str_A, Str_200>>),
      RowOf(<<Str_Subtotal, Str_300>>),
      RowOf(<<Str_B, Str_300>>), RowOf(<<Str_B, Str_400>>),
      RowOf(<<Str_Subtotal, Str_700>>)>>

GroupStepDone ==
    call'.op = "group_by_column_with_subtotals" /\ call'.outcome = "ok"

\* C3: group_by_column_with_subtotals(c) keeps the rows in their order and
\* inserts exactly one subtotal row right after the last row of each maximal
\* run of equal content in column c (an empty table stays empty); the rows
\* (A,100),(A,200),(B,300),(B,400) grouped by column 0 become
\* (A,100),(A,200),(Subtotal,300),(B,300),(B,400),(Subtotal,700).
C3_GroupStep ==
    /\ group_by_column_with_subtotals(ExampleColumns, ExampleRows, 0)
          = [panic |-> FALSE, rows |-> ExampleGrouped]
    /\ GroupStepDone =>
          LET c == call'.args[1]
          IN  /\ Len(rows') = Len(rows) + Cardinality(RunEnds(rows, c))
              /\ \A k \in DOMAIN rows : rows'[RowPlace(rows, c, k)] = rows[k]
              /\ \A e \in RunEnds(rows, c) :
                    HasLabel(rows'[SubtotalPlace(rows, c, e)])
              /\ rows = <<>> => rows' = <<>>

C3_Group == [][C3_GroupStep]_vars

\* A run of two rows followed by its subtotal.
C3_Witness ==
    /\ Completed("group_by_column_with_subtotals")
    /\ call.args[1] = 0
    /\ rows = <<RowOf(<<Str_A, Str_100>>), RowOf(<<Str_A, Str_25>>),
                RowOf(<<Str_Subtotal, <<"1", "2", "5">>>>)>>

\* C4: for every grouping column c, each subtotal row holds "Subtotal" in
\* column c and, in every other column j, the sum of column j over the run
\* when every cell of the run parses as a number, and "" otherwise.
C4_SubtotalStep ==
    GroupStepDone =>
        LET c == call'.args[1]
        IN  \A e \in RunEnds(rows, c) :
              LET sub  == rows'[SubtotalPlace(rows, c, e)]
                  run  == SubSeq(rows, RunStart(rows, c, e), e)
              IN  /\ At(sub, c).content = Str_Subtotal
                  /\ \A j \in 0..(Len(columns) - 1) :
                        j # c =>
                          LET parsed == [k \in DOMAIN run |->
                                            IF InRange(run[k], j)
                                            THEN ParseF64(At(run[k], j).content)
                                            ELSE [ok |-> FALSE, val |-> 0]]
                          IN  IF \A k \in DOMAIN run : parsed[k].ok
                              THEN At(sub, j).content =
                                     F64ToString(SeqSum([k \in DOMAIN run |->
                                                           parsed[k].val]))
                              ELSE At(sub, j).content = <<>>

C4_SubtotalContents == [][C4_SubtotalStep]_vars

(***************************************************************************)
(* Sorting.                                                                *)
(***************************************************************************)
\* The content of a row in column i, when it has such a cell.
KeyOf(row, i) == IF InRange(row, i) THEN Some(At(row, i).content) ELSE None

\* The rows whose content in column i is `key`, in their order.
RECURSIVE WithKey(_, _, _)
WithKey(rs, i, key) ==
    IF rs = <<>> THEN <<>>
    ELSE (IF KeyOf(Head(rs), i) = key THEN <<Head(rs)>> ELSE <<>>)
         \o WithKey(Tail(rs), i, key)

Keys(rs, i) == {KeyOf(rs[k], i) : k \in DOMAIN rs}

\* C5: sort_by_column(i, ascending) leaves a permutation of the rows whose
\* contents in column i are in non-decreasing (ascending) or non-increasing
\* (descending) order of their strings ("100" before "25"); rows of equal
\* content in column i keep their relative order in both directions;
\* columns and style are unchanged.
C5_SortStep ==
    /\ StrCmp(Str_100, Str_25) < 0
    /\ (call'.op = "sort_by_column" /\ call'.outcome = "ok") =>
          LET i   == call'.args[1]
              asc == call'.args[2]
          IN  /\ Len(rows') = Len(rows)
              /\ \A k \in 1..(Len(rows') - 1) :
                    LET ord == StrCmp(At(rows'[k], i).content,
                                      At(rows'[k + 1], i).content)
                    IN  IF asc THEN ord <= 0 ELSE ord >= 0
              /\ Keys(rows', i) = Keys(rows, i)
              /\ \A key \in Keys(rows, i) :
                    WithKey(rows', i, key) = WithKey(rows, i, key)
              /\ columns' = columns
              /\ style' = style

C5_Sort == [][C5_SortStep]_vars

\* Descending sort that had two rows of equal key to keep in order, and an
\* ascending sort that put "100" before "25".
C5_Witness ==
    /\ Completed("sort_by_column")
    /\ \/ /\ call.args = <<0, FALSE>>
          /\ rows = <<RowOf(<<Str_A, Str_100>>), RowOf(<<Str_A, Str_25>>)>>
       \/ /\ call.args = <<1, TRUE>>
          /\ rows = <<RowOf(<<Str_A, Str_100>>), RowOf(<<Str_A, Str_25>>)>>

(***************************************************************************)
(* Aggregation.                                                            *)
(***************************************************************************)
Parsable(rs, i) == {k \in DOMAIN rs : ParseF64(At(rs[k], i).content).ok}

ParsableTotal(rs, i) ==
    SeqSum([k \in DOMAIN rs |->
               IF k \in Parsable(rs, i) THEN ParseF64(At(rs[k], i).content).val
               ELSE 0])

\* The two results of one column: absent together, exactly when no cell
\* parses; otherwise sum = average * number of parsable cells.
SumAverageAgree(rs, i, s, a) ==
    /\ (s = None) <=> (Parsable(rs, i) = {})
    /\ (a = None) <=> (Parsable(rs, i) = {})
    /\ s # None =>
          /\ s[1].num = ParsableTotal(rs, i) * s[1].den
          /\ s[1].num * a[1].den
                = a[1].num * Cardinality(Parsable(rs, i)) * s[1].den

\* C7: sum_column(i) and average_column(i) are both absent exactly when no
\* cell of column i parses as a number; otherwise both are present, cells
\* that do not parse are skipped, and sum_column(i) equals average_column(i)
\* times the number of parsable cells.
C7_SumAverage ==
    /\ Completed("sum_column") =>
          SumAverageAgree(rows, call.args[1], call.ret[1],
                          average_column(rows, call.args[1]))
    /\ Completed("average_column") =>
          SumAverageAgree(rows, call.args[1],
                          sum_column(rows, call.args[1]), call.ret[1])

\* An average over a column with one cell that parses and one that does not.
C7_Witness ==
    /\ Completed("average_column")
    /\ Len(rows) = 2
    /\ Cardinality(Parsable(rows, call.args[1])) = 1
    /\ call.ret[1] # None

(***************************************************************************)
(* A caller that keeps the table filter_rows returned, and goes on to      *)
(* change the source table and the kept table.                             *)
(***************************************************************************)
filter_keep == filter_rows(TRUE)

\* filtered.add_row(row)
filtered_add_row ==
    \E row \in RowInputs :
        /\ Running
        /\ filtered # None
        /\ Len(filtered[1].rows) < MaxRows
        /\ IF add_row_accepts(filtered[1].columns, row)
           THEN /\ filtered' = Some([filtered[1] EXCEPT
                                       !.rows = add_row_rows(@, row)])
                /\ call' = Call("filtered.add_row", <<row>>, "ok", None)
           ELSE /\ filtered' = filtered
                /\ call' = Call("filtered.add_row", <<row>>, "panic",
                                Some(RowLengthPanic))
        /\ UNCHANGED <<tableVars, sinkVars>>

\* filtered.add_column(header, width, alignment)
filtered_add_column ==
    \E c \in ColumnInputs :
        /\ Running
        /\ filtered # None
        /\ Len(filtered[1].columns) < MaxCols
        /\ filtered' = Some([filtered[1] EXCEPT
                               !.columns = add_column_cols(@, c.header, c.width,
                                                           c.alignment)])
        /\ call' = Call("filtered.add_column", <<c>>, "ok", None)
        /\ UNCHANGED <<tableVars, sinkVars>>

NextFilter ==
    \/ add_column
    \/ add_row
    \/ sort
    \/ filter_keep
    \/ filtered_add_row
    \/ filtered_add_column

SpecFilter == Init /\ [][NextFilter]_vars

\* The rows of rs that satisfy p.
Satisfying(rs, p) == {k \in DOMAIN rs : PredicateHolds(p, rs[k])}

\* C6: filter_rows(p) returns a new table with the columns and the style of
\* the source and exactly the source rows that satisfy p, in their order;
\* the call leaves the source unchanged, and a later change of either table
\* leaves the other as it was.
C6_FilterStep ==
    /\ (call'.op = "filter_rows" /\ call'.outcome = "ok") =>
          LET p == call'.args[1]
              t == call'.ret[1]
          IN  /\ t.columns = columns
              /\ t.style = style
              /\ Len(t.rows) = Cardinality(Satisfying(rows, p))
              /\ \A k \in Satisfying(rows, p) :
                    t.rows[Cardinality({m \in Satisfying(rows, p) : m <= k})]
                       = rows[k]
              /\ filtered' = Some(t)
              /\ UNCHANGED tableVars
    /\ call'.op \in {"add_column", "add_row", "sort_by_column"} =>
          filtered' = filtered
    /\ call'.op \in {"filtered.add_row", "filtered.add_column"} =>
          UNCHANGED tableVars

C6_Filter == [][C6_FilterStep]_vars

\* A kept table of one row out of two, after both tables were changed.
C6_Witness ==
    /\ filtered # None
    /\ Completed("filtered.add_column")
    /\ Len(filtered[1].rows) = 1
    /\ Len(rows) = 2
    /\ Len(filtered[1].columns) = 2
    /\ Len(columns) = 1
    /\ style = "Grid"


(***************************************************************************)
(* Rendering: a table that add_column and add_row have built is rendered   *)
(* by print_to_writer and print_color into a sink that may fail.  `sink`   *)
(* is the operations the last render performed on its sink, `result` what  *)
(* the call returned.                                                      *)
(***************************************************************************)
RenderStyles == {"Simple", "Amiga", "Grid", "Markdown"}

Str_H == <<"H">>

Str_N == <<"N">>

Str_a == <<"a">>

Str_b_c == <<"b", LF, "c">>

Str_7 == <<"0", "7">>

ColH == Column(Str_H, 3, "Left")

ColN == Column(Str_N, 2, "Right")

ColZero == Column(<<>>, 0, "Center")

ColTest == Column(Str_Test, 10, "Left")

Str_Value == <<"V", "a", "l", "u", "e">>

\* cell.style.bold = true; cell.style.padding = 2
StyledCell(content) ==
    [content |-> content,
     style |-> [CellStyleNew EXCEPT !.bold = TRUE, !.padding = 2]]

\* The tables rendered: one of no column (Table::new alone), columns of
\* widths 3, 2 and 10, and a column of stored width 0.
RenderColumnInputs ==
    {<<>>, <<ColH>>, <<ColH, ColN>>, <<ColZero>>, <<ColH, ColZero>>, <<ColTest>>}

\* Rows of n cells: plain text, a first cell of two sub-lines, a number,
\* cells without content, and a last cell in bold with a padding of 2.
RenderRowInputs(n) ==
    {RowOf([j \in 1..n |-> Str_a]),
     [j \in 1..n |-> IF j = n THEN StyledCell(Str_Value) ELSE CellNew(Str_a)],
     RowOf([j \in 1..n |-> IF j = 1 THEN Str_b_c ELSE Str_a]),
     RowOf([j \in 1..n |-> IF j = 1 THEN Str_7 ELSE Str_a]),
     RowOf([j \in 1..n |-> <<>>])}

RenderRowSeqs(n) ==
    UNION {[1..m -> RenderRowInputs(n)] : m \in 0..MaxRows}

InitRender ==
    /\ columns \in RenderColumnInputs
    /\ rows \in RenderRowSeqs(Len(columns))
    /\ style \in RenderStyles
    /\ filtered = None
    /\ call = Call("new", <<style>>, "ok", None)
    /\ sink = <<>>
    /\ result = NoResult
    /\ file = None

\* One render call: the sink fails at operation `fail` (0: never).  A run
\* renders its table once: a render leaves the table as it is and starts
\* on a sink of its own, so a second one repeats the first.
Render(op, ops) ==
    \E fail \in 0..SinkOps(ops) :
        LET run == Run(ops, fail)
        IN  /\ Running
            /\ result = NoResult
            /\ sink' = run.log
            /\ \E outcome \in (IF run.result = Underflowed
                               THEN UnderflowOutcomes ELSE {"ok"}) :
                  /\ result' = IF outcome = "ok" THEN run.result
                               ELSE [kind |-> outcome, at |-> 0]
                  /\ call' = Call(op, <<fail>>, outcome, None)
            /\ UNCHANGED <<tableVars, filtered, file>>

print_to_writer == Render("print_to_writer", print_to_writer_ops(columns, rows, style))

print_color == Render("print_color", print_color_ops(columns, rows, style))

NextRender == print_to_writer \/ print_color

SpecRender == InitRender /\ [][NextRender]_vars

(***************************************************************************)
(* The colour state of the sink.  A ColorSpec made by ColorSpec::new asks  *)
(* for a reset first, so set_color replaces the state by its spec; reset   *)
(* puts the default back.  An operation that failed leaves the state.      *)
(***************************************************************************)
DefaultColor == ColorSpec(FALSE, FALSE, FALSE, None)

\* The colour state behind the first n operations of a log.
RECURSIVE ColorState(_, _)
ColorState(log, n) ==
    IF n = 0 THEN DefaultColor
    ELSE IF log[n].ok /\ log[n].kind = "set_color" THEN log[n].spec[1]
    ELSE IF log[n].ok /\ log[n].kind = "reset" THEN DefaultColor
    ELSE ColorState(log, n - 1)

(***************************************************************************)
(* Properties of a render.                                                 *)
(***************************************************************************)
RenderDone == call.op \in {"print_to_writer", "print_color"}

Returned(kind) == RenderDone /\ result.kind = kind

IsCellEntry(e) == e.at.col >= 0

IsLineEnd(e) == e.at.part # "none" /\ e.at.col = -1

MultiLine(row) == \E j \in DOMAIN row : \E i \in DOMAIN row[j].content : row[j].content[i] = LF

\* The greatest sub-line count over the cells of a row.
RowHeight(row) ==
    LET counts == {Len(Lines(row[j].content)) : j \in DOMAIN row}
    IN  CHOOSE h \in counts : \A n \in counts : n <= h

\* What line k of a row shows of a cell: its k-th sub-line (the formatted
\* content of a cell of one line), nothing behind its last sub-line.
SubLine(cell, k) ==
    LET sub == Lines(cell.content)
    IN  IF k >= Len(sub) THEN <<>>
        ELSE IF Len(sub) = 1 THEN formatted_content(cell)
        ELSE sub[k + 1]

\* The field line e.at.line of a data row shows in column e.at.col.
FieldOf(e) ==
    LET cell  == rows[e.at.row][e.at.col + 1]
        col   == columns[e.at.col + 1]
        pad   == Spaces(cell.style.padding)
        shown == SubLine(cell, e.at.line)
    IN  IF e.site = "print_row_styled.cell"
        THEN <<" ">> \o pad \o Aligned(shown, col.width, col.alignment) \o pad \o <<" ">>
        ELSE pad \o Aligned(shown, col.width - 1, col.alignment) \o pad

LineEndsOf(k) == {i \in DOMAIN sink : IsLineEnd(sink[i]) /\ sink[i].at.part = "row"
                                      /\ sink[i].at.row = k}

\* C8: in a completed render, a data row with a cell of several sub-lines
\* is emitted as h lines, h the greatest sub-line count over its cells, and
\* line k shows in each column only the k-th sub-line of the cell, or a
\* blank field behind the cell's last sub-line; in the simple and in the
\* bordered path.
C8_MultiLine ==
    Returned("Ok") =>
        \A k \in DOMAIN rows :
            MultiLine(rows[k]) =>
                /\ Cardinality(LineEndsOf(k)) = RowHeight(rows[k])
                /\ \A i \in DOMAIN sink :
                      (IsCellEntry(sink[i]) /\ sink[i].at.part = "row"
                         /\ sink[i].at.row = k)
                      => sink[i].text = FieldOf(sink[i])

LineTag(e) == <<e.at.part, e.at.row>>

\* The lines of one row (or of the header) counted as one place.
RECURSIVE Places(_)
Places(tags) ==
    IF Len(tags) <= 1 THEN tags
    ELSE IF tags[1] = tags[2] /\ tags[1][1] \in {"header", "row"}
    THEN Places(Tail(tags))
    ELSE <<tags[1]>> \o Places(Tail(tags))

LineEnds == SelectSeq(sink, IsLineEnd)

EmittedPlaces == Places([i \in DOMAIN LineEnds |-> LineTag(LineEnds[i])])

\* A row of no cells has one line; a row of cells has the lines of its
\* contents.
HasLines(row) == row = <<>> \/ \E j \in DOMAIN row : row[j].content # <<>>

DataRowPlaces ==
    Concat([k \in DOMAIN rows |->
              IF HasLines(rows[k]) THEN <<<<"row", k>>>> ELSE <<>>])

ExpectedPlaces ==
    IF StyleConfig(style) # None
    THEN <<<<"top", 0>>>>
         \o (IF HasLines(HeaderCells(columns)) THEN <<<<"header", 0>>>> ELSE <<>>)
         \o <<<<"below_header", 0>>>>
         \o DataRowPlaces
         \o <<<<"bottom", 0>>>>
    ELSE <<<<"header", 0>>>> \o DataRowPlaces

IsPrefix(a, b) == Len(a) <= Len(b) /\ a = SubSeq(b, 1, Len(a))

\* C9: a render with a border template emits one top border line, the
\* lines of the header row, one header-separator line, the lines of the
\* data rows in table order and one bottom border line, no border line
\* between data rows; without a template (Simple, Amiga) the header line
\* and then the lines of the data rows in table order, no border line.  A
\* render that ends early has emitted a prefix of this.
C9_LineOrder ==
    RenderDone =>
        /\ IsPrefix(EmittedPlaces, ExpectedPlaces)
        /\ result = Ok => EmittedPlaces = ExpectedPlaces

C9_Witness ==
    /\ Returned("Ok")
    /\ call.op = "print_to_writer"
    /\ style = "Grid"
    /\ Len(rows) = 2
    /\ rows[1] # rows[2]
    /\ EmittedPlaces = <<<<"top", 0>>, <<"header", 0>>, <<"below_header", 0>>,
                         <<"row", 1>>, <<"row", 2>>, <<"bottom", 0>>>>

\* C10: when an operation on the sink fails during print_to_writer or
\* print_color, it is the last operation the render performs on the sink
\* and the call returns that failure.
C10_SinkFailure ==
    RenderDone =>
        /\ \A i \in DOMAIN sink :
              ~sink[i].ok => /\ i = Len(sink)
                             /\ i = call.args[1]
                             /\ result = Err(i)
        /\ result.kind = "Err" => (sink # <<>> /\ ~sink[Len(sink)].ok)

C10_Witness ==
    /\ call.op = "print_color"
    /\ style = "Grid"
    /\ Len(rows) = 2
    /\ result = Err(Len(sink))
    /\ sink[Len(sink)].site = "print_row_styled.reset"
    /\ ~sink[Len(sink)].ok
    /\ Len(sink) < SinkOps(print_color_ops(columns, rows, style))

\* A cell written while the sink's colour state holds style attributes.
StyledSpan(i) ==
    /\ IsCellEntry(sink[i])
    /\ sink[i].ok
    /\ ColorState(sink, i - 1) # DefaultColor

\* C11: in a render that has returned, every cell written with style
\* attributes is followed by a reset before anything else is written, and
\* at the return the sink's colour state is the default, or a reset was
\* the last thing tried, whether the render completed or a sink operation
\* failed.
C11_ColorReset ==
    (RenderDone /\ result.kind \in {"Ok", "Err"}) =>
        /\ \A i \in DOMAIN sink :
              (StyledSpan(i) /\ i < Len(sink)) => sink[i + 1].kind = "reset"
        /\ \/ ColorState(sink, Len(sink)) = DefaultColor
           \/ (sink # <<>> /\ sink[Len(sink)].kind = "reset")

\* The characters a log has put into its sink.
Written(log) ==
    Concat([i \in DOMAIN log |->
              IF log[i].kind = "write" /\ log[i].ok THEN log[i].text ELSE <<>>])

HeaderWrites == {i \in DOMAIN sink : sink[i].site = "print_headers.header"}

CellWrites == {i \in DOMAIN sink : IsCellEntry(sink[i])}

\* The foreground colour the sink holds when operation i writes.
FgAt(i) == ColorState(sink, i - 1).fg

\* C12: print_color of an Amiga table writes all header text in one
\* foreground colour and the text of every cell of every data row in one
\* other foreground colour, and the characters written are those of the
\* simple layout of the table.
C12_AmigaColors ==
    (Returned("Ok") /\ call.op = "print_color" /\ style = "Amiga") =>
        /\ \A i \in HeaderWrites : FgAt(i) = Some("Blue")
        /\ \A i \in CellWrites : FgAt(i) # None /\ FgAt(i) # Some("Blue")
        /\ \A i, j \in CellWrites : FgAt(i) = FgAt(j)
        /\ Written(sink) = Written(Run(print_simple(columns, rows), 0).log)

(***************************************************************************)
(* Rendering the same table again, into a second sink that does not fail.  *)
(* `sink` holds the operations of the render before until the second one   *)
(* replaces them, so a step of the second render has both logs.            *)
(***************************************************************************)
\* A render that adjusts the widths of the table it prints.
RerenderAdjusting(op, ops) ==
    LET run == Run(ops, 0)
    IN  /\ Running
        /\ RenderDone
        /\ sink' = run.log
        /\ \E outcome \in (IF run.result = Underflowed
                           THEN UnderflowOutcomes ELSE {"ok"}) :
              /\ result' = IF outcome = "ok" THEN run.result
                           ELSE [kind |-> outcome, at |-> 0]
              /\ call' = Call(op, <<0, 2>>, outcome, None)
        /\ columns' = auto_adjust_widths(columns, rows).columns
        /\ UNCHANGED <<rows, style, filtered, file>>

\* print_to_writer / print_color called once more on the table (&self).
Rerender(op, ops) ==
    LET run == Run(ops, 0)
    IN  /\ Running
        /\ RenderDone
        /\ sink' = run.log
        /\ \E outcome \in (IF run.result = Underflowed
                           THEN UnderflowOutcomes ELSE {"ok"}) :
              /\ result' = IF outcome = "ok" THEN run.result
                           ELSE [kind |-> outcome, at |-> 0]
              /\ call' = Call(op, <<0, 2>>, outcome, None)
        /\ UNCHANGED <<tableVars, filtered, file>>

print_to_writer_again ==
    Rerender("print_to_writer", print_to_writer_ops(columns, rows, style))

print_color_again ==
    Rerender("print_color", print_color_ops(columns, rows, style))

NextRerender ==
    print_to_writer \/ print_color \/ print_to_writer_again \/ print_color_again

SpecRerender == InitRender /\ [][NextRerender]_vars

\* The operations of a log that succeeded.
Succeeded(log) == SelectSeq(log, LAMBDA e : e.ok)

C13_RenderStep ==
    call'.op \in {"print_to_writer", "print_color"} =>
        /\ columns' = columns /\ rows' = rows /\ style' = style
        /\ (RenderDone /\ call'.op = call.op /\ result'.kind = "Ok") =>
              /\ IsPrefix(Succeeded(sink), sink')
              /\ result.kind = "Ok" => sink' = sink

OutputLines == Lines(Written(sink))

Piped(line) == line # <<>> /\ line[1] = "|" /\ line[Len(line)] = "|"

\* C14: a completed render of a Markdown table (of cells of one line) is
\* a pipe-delimited table: every line starts and ends with '|', the first
\* is the header row, the second the separator of dashes between '|', and
\* there is no other line, none empty and none before the header.
C14_Markdown ==
    (Returned("Ok") /\ style = "Markdown"
       /\ \A k \in DOMAIN rows : ~MultiLine(rows[k])) =>
        /\ \A n \in DOMAIN OutputLines : Piped(OutputLines[n])
        /\ Len(OutputLines) >= 2
        /\ \A i \in DOMAIN OutputLines[2] : OutputLines[2][i] \in {"|", "-"}

(***************************************************************************)
(* Cell::formatted_content on cells of its own: contents that parse and    *)
(* contents that do not, with and without decimal_places and               *)
(* thousand_separator.                                                     *)
(***************************************************************************)
Str_1234567_8910 == <<"1", "2", "3", "4", "5", "6", "7", ".", "8", "9", "1", "0">>

Str_m123456 == <<"-", "1", "2", "3", "4", "5", "6">>

Str_123456 == <<"1", "2", "3", "4", "5", "6">>

Str_m1234 == <<"-", "1", "2", "3", "4">>

Str_1234_5 == <<"1", "2", "3", "4", ".", "5">>

Str_m999_5 == <<"-", "9", "9", "9", ".", "5">>

Str_999 == <<"9", "9", "9">>

Str_12 == <<"1", "2">>

Str_0_125 == <<"0", ".", "1", "2", "5">>

Str_1comma000 == <<"1", ",", "0", "0", "0">>

FormatContents ==
    {Str_1234567_8910, Str_m123456, Str_123456, Str_m1234, Str_1234_5,
     Str_m999_5, Str_999, Str_12, Str_0_125, Str_7, Str_Value, Str_1comma000}

FormatCell(content, decimal_places, thousand_separator) ==
    [content |-> content,
     style |-> [CellStyleNew EXCEPT !.decimal_places = decimal_places,
                                    !.thousand_separator = thousand_separator]]

FormatCellInputs ==
    {FormatCell(c, d, t) : c \in FormatContents,
                           d \in {None, Some(0), Some(2)},
                           t \in BOOLEAN}

format_cell ==
    \E cell \in FormatCellInputs :
        /\ Running
        /\ call' = Call("formatted_content", <<cell>>, "ok",
                        Some(formatted_content(cell)))
        /\ UNCHANGED <<tableVars, filtered, sinkVars>>

NextFormat == format_cell

SpecFormat == Init /\ [][NextFormat]_vars

\* Digits in groups of three from the right, a ',' between the groups.
RECURSIVE Grouped(_)
Grouped(digits) ==
    IF Len(digits) <= 3 THEN digits
    ELSE Grouped(SubSeq(digits, 1, Len(digits) - 3)) \o <<",">>
         \o SubSeq(digits, Len(digits) - 2, Len(digits))

\* The number text `shown` with its integer digits grouped: the sign and
\* the fraction as they are.
WithThousands(shown) ==
    LET neg    == shown # <<>> /\ Head(shown) = "-"
        body   == IF neg THEN Tail(shown) ELSE shown
        dots   == {i \in DOMAIN body : body[i] = "."}
        dot    == IF dots = {} THEN Len(body) + 1 ELSE Least(dots)
    IN  (IF neg THEN <<"-">> ELSE <<>>)
        \o Grouped(SubSeq(body, 1, dot - 1))
        \o SubSeq(body, dot, Len(body))

\* The text of a number before the separators: rounded to decimal_places
\* when the style has them.
Rounded(cell) ==
    IF cell.style.decimal_places # None
    THEN FormatFixed(ParseF64(cell.content).val, cell.style.decimal_places[1])
    ELSE F64ToString(ParseF64(cell.content).val)

Str_1c234c567_89 ==
    <<"1", ",", "2", "3", "4", ",", "5", "6", "7", ".", "8", "9">>

\* C15: the displayed text of a cell that parses as a number and asks for
\* a thousands separator is its rounded text with a ',' before every third
\* integer digit counted from the right, none next to the sign and none
\* in the fraction; "1234567.8910" with 2 decimal places gives
\* "1,234,567.89"; content that does not parse is displayed unchanged.
C15_Thousands ==
    call.op = "formatted_content" =>
        LET cell == call.args[1]
            out  == call.ret[1]
        IN  /\ ~ParseF64(cell.content).ok => out = cell.content
            /\ (ParseF64(cell.content).ok /\ cell.style.thousand_separator)
                  => out = WithThousands(Rounded(cell))
            /\ cell = FormatCell(Str_1234567_8910, Some(2), TRUE)
                  => out = Str_1c234c567_89

(***************************************************************************)
(* csv_support: Table::to_csv and Table::from_csv, with the csv crate's    *)
(* writer and reader in their default configuration (',' delimiter, '"'    *)
(* quote, quoting where necessary, records of equal length, the first      *)
(* record read as the headers).                                            *)
(***************************************************************************)
DQ == "\""

CsvSpecial == {",", DQ, LF}

NeedsQuotes(field) == \E i \in DOMAIN field : field[i] \in CsvSpecial

\* A field between quotes, each quote in it doubled.
Quoted(field) ==
    <<DQ>>
    \o Concat([i \in DOMAIN field |->
                 IF field[i] = DQ THEN <<DQ, DQ>> ELSE <<field[i]>>])
    \o <<DQ>>

CsvField(field) == IF NeedsQuotes(field) THEN Quoted(field) ELSE field

\* csv::Writer::write_record: the fields with ',' between them and a line
\* break behind; a record that has written no byte when it ends (no field,
\* or one empty field) is written as "".
write_record(fields) ==
    (IF fields \in {<<>>, <<<<>>>>} THEN <<DQ, DQ>>
     ELSE Concat([j \in DOMAIN fields |->
                    (IF j > 1 THEN <<",">> ELSE <<>>) \o CsvField(fields[j])]))
    \o <<LF>>

Contents(row) == [j \in DOMAIN row |-> row[j].content]

\* Table::to_csv: one record for each row; nothing for the columns.
to_csv_text(rs) == Concat([k \in DOMAIN rs |-> write_record(Contents(rs[k]))])

\* The reader's state: the field and the record being read, the records
\* read, inside quotes or not, and whether the record has begun.
CsvStart ==
    [field |-> <<>>, record |-> <<>>, records |-> <<>>, quoted |-> FALSE,
     begun |-> FALSE]

CsvEndRecord(st) ==
    IF st.begun
    THEN [CsvStart EXCEPT !.records = Append(st.records, Append(st.record, st.field))]
    ELSE st

\* csv::Reader over the text from character i on.
RECURSIVE CsvRead(_, _, _)
CsvRead(text, i, st) ==
    IF i > Len(text) THEN CsvEndRecord(st).records
    ELSE LET c == text[i]
         IN  IF st.quoted
             THEN IF c = DQ /\ i < Len(text) /\ text[i + 1] = DQ
                  THEN CsvRead(text, i + 2, [st EXCEPT !.field = Append(@, DQ)])
                  ELSE IF c = DQ
                  THEN CsvRead(text, i + 1, [st EXCEPT !.quoted = FALSE])
                  ELSE CsvRead(text, i + 1, [st EXCEPT !.field = Append(@, c)])
             ELSE IF c = DQ /\ st.field = <<>>
             THEN CsvRead(text, i + 1, [st EXCEPT !.quoted = TRUE, !.begun = TRUE])
             ELSE IF c = ","
             THEN CsvRead(text, i + 1,
                          [st EXCEPT !.record = Append(@, st.field),
                                     !.field = <<>>, !.begun = TRUE])
             ELSE IF c = LF
             THEN CsvRead(text, i + 1, CsvEndRecord(st))
             ELSE CsvRead(text, i + 1,
                          [st EXCEPT !.field = Append(@, c), !.begun = TRUE])

CsvRecords(text) == CsvRead(text, 1, CsvStart)

\* Table::from_csv: Err for a record of another length than the first,
\* else the Simple table of the first record's columns and the other
\* records' rows.
from_csv_table(text) ==
    LET records == CsvRecords(text)
        headers == IF records = <<>> THEN <<>> ELSE Head(records)
        data    == IF records = <<>> THEN <<>> ELSE Tail(records)
    IN  IF \E k \in DOMAIN data : Len(data[k]) # Len(headers)
        THEN [ok |-> FALSE, table |-> None]
        ELSE [ok |-> TRUE,
              table |-> Some([columns |-> [j \in DOMAIN headers |->
                                              Column(headers[j], 10, "Left")],
                              rows |-> [k \in DOMAIN data |-> RowOf(data[k])],
                              style |-> "Simple"])]

to_csv ==
    /\ Running
    /\ file' = Some(to_csv_text(rows))
    /\ call' = Call("to_csv", <<>>, "ok", None)
    /\ UNCHANGED <<tableVars, filtered, sink, result>>

from_csv ==
    /\ Running
    /\ file # None
    /\ LET read == from_csv_table(file[1])
       IN  call' = Call("from_csv", <<>>, "ok",
                        IF read.ok THEN read.table ELSE None)
    /\ UNCHANGED <<tableVars, filtered, sinkVars>>

NextCsv == to_csv \/ from_csv

SpecCsv == InitRender /\ [][NextCsv]_vars

Headers(cols) == [j \in DOMAIN cols |-> cols[j].header]

\* C16: the table from_csv reads from the file to_csv has written has the
\* column headers of the original table and its rows of content strings,
\* in the same order.
C16_CsvRoundTrip ==
    Completed("from_csv") =>
        /\ call.ret # None
        /\ Headers(call.ret[1].columns) = Headers(columns)
        /\ [k \in DOMAIN call.ret[1].rows |-> Contents(call.ret[1].rows[k])]
             = [k \in DOMAIN rows |-> Contents(rows[k])]

(***************************************************************************)
(* auto_adjust_widths on tables whose cells show another text than their   *)
(* content: numbers that formatting rewrites.                              *)
(***************************************************************************)
AdjustRowInputs(n) ==
    RenderRowInputs(n)
    \cup {[j \in 1..n |-> IF j = 1 THEN FormatCell(Str_12, Some(2), FALSE)
                          ELSE CellNew(Str_a)]}

InitAdjust ==
    /\ columns \in RenderColumnInputs
    /\ rows \in UNION {[1..m -> AdjustRowInputs(Len(columns))] : m \in 0..MaxRows}
    /\ style \in RenderStyles
    /\ filtered = None
    /\ call = Call("new", <<style>>, "ok", None)
    /\ sink = <<>>
    /\ result = NoResult
    /\ file = None

NextAdjust == auto_adjust \/ sort

SpecAdjust == InitAdjust /\ [][NextAdjust]_vars

\* The length of the text the renderer shows for a cell.
DisplayLength(cell) == Len(formatted_content(cell))

\* max(header length, greatest display length in the column) + 2
DisplayWidth(col, rs, j) ==
    LET lens == {DisplayLength(rs[k][j]) : k \in DOMAIN rs}
    IN  (CHOOSE m \in lens \cup {Len(col.header)} :
            \A n \in lens \cup {Len(col.header)} : n <= m) + 2

Widths(cols) == [j \in DOMAIN cols |-> cols[j].width]

C17_AdjustStep ==
    IF call'.op = "auto_adjust_widths" /\ call'.outcome = "ok"
    THEN /\ Widths(columns') = [j \in DOMAIN columns |->
                                  DisplayWidth(columns[j], rows, j)]
         /\ \A k \in DOMAIN rows : \A j \in DOMAIN columns :
               DisplayLength(rows[k][j]) <= columns'[j].width
         /\ Headers(columns') = Headers(columns)
         /\ [j \in DOMAIN columns' |-> columns'[j].alignment]
              = [j \in DOMAIN columns |-> columns[j].alignment]
         /\ rows' = rows /\ style' = style
    ELSE Widths(columns') = Widths(columns)

\* C17: auto_adjust_widths sets each column's width to the greater of the
\* header length and the greatest display length of the column's cells,
\* plus 2, so that every displayed text fits; it changes nothing else, and
\* no other operation changes a width.
C17_AutoAdjust == [][C17_AdjustStep]_vars

\* The cell an operation of the log was written for.
CellOf(e) ==
    IF e.at.part = "header" THEN HeaderCells(columns)[e.at.col + 1]
    ELSE rows[e.at.row][e.at.col + 1]

\* The cell's text aligned to the width of its column field.
AlignedField(e) ==
    LET col == columns[e.at.col + 1]
    IN  Aligned(formatted_content(CellOf(e)),
                IF e.site = "print_row_styled.cell" THEN col.width
                ELSE col.width - 1,
                col.alignment)

\* The fixed space on each side of a field of a bordered row.
Margin(e) == IF e.site = "print_row_styled.cell" THEN <<" ">> ELSE <<>>

\* C18: every cell a render writes is its aligned text with exactly
\* style.padding spaces on each side (inside the one-space margins of a
\* bordered row), for every alignment; "Value" with a padding of 2 has
\* exactly two spaces on each side of its aligned text.
C18_Padding ==
    RenderDone =>
        \A i \in DOMAIN sink :
            IsCellEntry(sink[i]) =>
                sink[i].text = Margin(sink[i])
                               \o Spaces(CellOf(sink[i]).style.padding)
                               \o AlignedField(sink[i])
                               \o Spaces(CellOf(sink[i]).style.padding)
                               \o Margin(sink[i])

Str_Value_in_10 == Str_Value \o <<" ", " ", " ", " ", " ">>

C18_Witness ==
    /\ Returned("Ok")
    /\ style = "Grid"
    /\ columns = <<ColTest>>
    /\ \E i \in DOMAIN sink :
          /\ IsCellEntry(sink[i])
          /\ CellOf(sink[i]) = StyledCell(Str_Value)
          /\ sink[i].text = <<" ">> \o <<" ", " ">> \o Str_Value_in_10
                            \o <<" ", " ">> \o <<" ">>

\* Every header and cell text fits its column, every cell has the default
\* padding and one line.
FitsColumns ==
    /\ \A j \in DOMAIN columns : Len(columns[j].header) <= columns[j].width
    /\ \A k \in DOMAIN rows :
          /\ ~MultiLine(rows[k])
          /\ \A j \in DOMAIN rows[k] :
                /\ DisplayLength(rows[k][j]) <= columns[j].width
                /\ rows[k][j].style.padding = CellStyleNew.padding

\* Where a line has a glyph that separates or closes columns.
GlyphOffsets(line) == {i \in DOMAIN line : line[i] \in {"|", "+"}}

\* C19: in a completed bordered render of a table whose texts fit their
\* columns and whose cells have the default padding, every line written
\* (top, header row, separator, data rows, bottom) has the same number of
\* characters and the column separators of the row lines stand at the
\* offsets of the separators of the border lines.
C19_Alignment ==
    (Returned("Ok") /\ StyleConfig(style) # None /\ FitsColumns) =>
        \A m, n \in DOMAIN OutputLines :
            /\ Len(OutputLines[m]) = Len(OutputLines[n])
            /\ GlyphOffsets(OutputLines[m]) = GlyphOffsets(OutputLines[n])

HeaderLineEnds ==
    {i \in DOMAIN sink : IsLineEnd(sink[i]) /\ sink[i].at.part = "header"}

RowLineEnds ==
    {i \in DOMAIN sink : IsLineEnd(sink[i]) /\ sink[i].at.part = "row"}

\* C20: a completed render has written at least one line for the header
\* and at least one for every data row, rows and headers of empty cells
\* included: never fewer row lines than the table has rows.
C20_RowsVisible ==
    Returned("Ok") =>
        /\ HeaderLineEnds # {}
        /\ \A k \in DOMAIN rows : LineEndsOf(k) # {}
        /\ Cardinality(RowLineEnds) >= Len(rows)

\* A render that came back to its caller with a value of io::Result.
CompletedWithResult == RenderDone /\ call.outcome = "ok" /\ result.kind \in {"Ok", "Err"}

\* C21: a render with a template-less style (Simple, Amiga) never takes
\* `column.width - 1` or `columns.len() - 1` below zero: whatever the table,
\* a column of stored width 0 and a table of no column included, the render
\* comes back with a result (Ok, or the sink's Err) and never aborts.
C21_NoUnderflow ==
    (RenderDone /\ StyleConfig(style) = None) => CompletedWithResult

====
